---- MODULE Spec2Model ----
(***************************************************************************)
(* Model of src/src/App.js: the App component's hook state, its two        *)
(* effects (the fetch of /dashboard_data.json and the theme effect), the   *)
(* promise chain of the fetch, toggleTheme, and the render of the main     *)
(* panel.                                                                   *)
(*                                                                         *)
(* JSON values are tagged records: kind "undefined" stands for an absent   *)
(* key, "null" for JSON null, "num" for a (truthy) number, "obj" for an    *)
(* object and "arr" for an array.  Strings and numbers that the code only  *)
(* copies are string tokens; the numericStats means and deviations, which  *)
(* the code formats, are integers counting thousandths.                    *)
(*                                                                         *)
(* The React version is not fixed by the source.  With automatic batching  *)
(* (React 18 roots) the updates of one promise callback are committed      *)
(* together; without it (legacy roots) each setState called from a promise *)
(* callback re-renders synchronously.  batching is chosen in Init.         *)
(***************************************************************************)
EXTENDS Integers, Sequences, FiniteSets, TLC

\* Longest accident_by_time array fetched.
MaxLen == 2
\* Number of clicks on the theme button.
MaxToggles == 2

UNDEF == "undefined"
NULL == "null"

--------------------------------------------------------------------------
(* Input domains *)

SeqsUpTo(S, n) == UNION { [1..k -> S] : k \in 0..n }

\* Elements of accident_by_time: JSON null, two {Var1, Freq} records, {}.
Items ==
  { [kind |-> "null", Var1 |-> UNDEF, Freq |-> UNDEF],
    [kind |-> "obj", Var1 |-> "Morning", Freq |-> "10"],
    [kind |-> "obj", Var1 |-> "Evening", Freq |-> "25"],
    [kind |-> "obj", Var1 |-> UNDEF, Freq |-> UNDEF] }

\* Values of the key accident_by_time: absent, null, 5, {}, or an array.
AbtVals ==
  { [kind |-> k, items |-> <<>>] : k \in {"undefined", "null", "num", "obj"} }
  \cup { [kind |-> "arr", items |-> s] : s \in SeqsUpTo(Items, MaxLen) }

\* Values of summary.numericStats: absent, {}, {speed: {mean, sd}}, {speed: null}.
StatsVals ==
  { [kind |-> "undefined", entries |-> <<>>],
    [kind |-> "obj", entries |-> <<>>],
    [kind |-> "obj",
     entries |-> << [key |-> "speed", kind |-> "obj", mean |-> 45200, sd |-> 5125] >>],
    [kind |-> "obj",
     entries |-> << [key |-> "speed", kind |-> "null", mean |-> 0, sd |-> 0] >>] }

\* rowsLoaded, rowsUsed, trainedSamples, featureVectorLength.
CardVals ==
  { << "100", "90", "80", "12" >>,
    << UNDEF, UNDEF, UNDEF, UNDEF >>,
    << UNDEF, "90", NULL, "12" >> }

Summ(k, c, n) ==
  [kind |-> k, rowsLoaded |-> c[1], rowsUsed |-> c[2], trainedSamples |-> c[3],
   featureVectorLength |-> c[4], numericStats |-> n]

NoCards == << UNDEF, UNDEF, UNDEF, UNDEF >>
NoStats == [kind |-> "undefined", entries |-> <<>>]
SummUndefined == Summ("undefined", NoCards, NoStats)
SummNull == Summ("null", NoCards, NoStats)

SummaryVals ==
  {SummUndefined, SummNull} \cup { Summ("obj", c, n) : c \in CardVals, n \in StatsVals }

\* Parsed bodies: null, a number, or an object with optional keys.
NullBody == [kind |-> "null", summary |-> SummUndefined,
             abt |-> [kind |-> "undefined", items |-> <<>>]]
NumBody == [kind |-> "num", summary |-> SummUndefined,
            abt |-> [kind |-> "undefined", items |-> <<>>]]
Bodies ==
  {NullBody, NumBody}
  \cup { [kind |-> "obj", summary |-> s, abt |-> a] : s \in SummaryVals, a \in AbtVals }

ExampleBody ==
  [kind |-> "obj",
   summary |-> Summ("obj", << "100", "90", "80", "12" >>,
                    [kind |-> "obj",
                     entries |-> << [key |-> "speed", kind |-> "obj",
                                     mean |-> 45200, sd |-> 5125] >>]),
   abt |-> [kind |-> "arr",
            items |-> << [kind |-> "obj", Var1 |-> "Morning", Freq |-> "10"],
                         [kind |-> "obj", Var1 |-> "Evening", Freq |-> "25"] >>]]

\* What fetch can resolve to: an OK response with any parseable body or an
\* unparseable one, or a non-2xx response with a parseable or unparseable body.
Responses ==
  { [settled |-> "response", ok |-> TRUE, parses |-> TRUE, body |-> b] : b \in Bodies }
  \cup { [settled |-> "response", ok |-> TRUE, parses |-> FALSE, body |-> NullBody] }
  \cup { [settled |-> "response", ok |-> FALSE, parses |-> p, body |-> b] :
           p \in BOOLEAN, b \in {NullBody, ExampleBody} }

NoResponse == [settled |-> "none", ok |-> FALSE, parses |-> FALSE, body |-> NullBody]
Rejected == [settled |-> "rejected", ok |-> FALSE, parses |-> FALSE, body |-> NullBody]

\* Values found under the key theme: none, "", and three strings.
NoItem == "<no item>"
StoredVals == {NoItem, "", "light", "dark", "blue"}

--------------------------------------------------------------------------
(* Pure parts of the component *)

\* The message of the Error thrown for a non-2xx response.
HTTP_MESSAGE == "Failed to load dashboard_data.json"
\* The message shown to the user (the source prefixes a warning sign).
FIXED_MESSAGE == "Unable to load dashboard_data.json. Please check the file path."

\* JavaScript truthiness of a tagged value (numbers here are non-zero).
Truthy(v) == v.kind \notin {"undefined", "null"}

\* x || "light" on what getItem returned (null when there is no item).
OrLight(x) == IF x = NoItem \/ x = "" THEN "light" ELSE x

\* The useState initialiser of theme: try { getItem || "light" } catch { "light" }.
InitialTheme(stored, readThrows) == IF readThrows THEN "light" ELSE OrLight(stored)

\* (t) => (t === "light" ? "dark" : "light")
Flip(t) == IF t = "light" THEN "dark" ELSE "light"

IgnoresStatus(r) == FALSE
\* if (!res.ok) throw new Error(...)
Then1Throws(r) == ~r.ok

\* json.summary or json.accident_by_time raise a TypeError when json is null.
DerefThrows(j) == j.kind = "null"

AlwaysMaps(j) == TRUE
\* if (json.accident_by_time)
HasAbt(j) == Truthy(j.abt)

\* json.accident_by_time.map(...) raises a TypeError when the value has no map
\* method (a number, an object) or when an element is null (item.Var1).
MapThrows(a) ==
  \/ a.kind # "arr"
  \/ \E i \in 1..Len(a.items) : a.items[i].kind = "null"

ChartDataSwapped(items) ==
  [i \in 1..Len(items) |-> [time |-> items[i].Freq, accidents |-> items[i].Var1]]
\* .map((item) => ({ time: item.Var1, accidents: item.Freq }))
ChartData(items) ==
  [i \in 1..Len(items) |-> [time |-> items[i].Var1, accidents |-> items[i].Freq]]

CatchMessageFromErr(e) == e
\* setError("... Unable to load dashboard_data.json. ...")
CatchMessage(e) == FIXED_MESSAGE

\* summary?.field ?? "-"
CardText(sm, v) ==
  IF sm.kind \in {"undefined", "null"} THEN "-"
  ELSE IF v \in {UNDEF, NULL} THEN "-" ELSE v

\* Number(x).toFixed(2): thousandths to hundredths, rounded.
ToFixed2(x) == (x + 5) \div 10

\* summary && Object.keys(summary.numericStats).map(...): Object.keys throws on
\* undefined, summary.numericStats[k].mean throws on a null entry.
StatsThrow(sm) ==
  /\ Truthy(sm)
  /\ \/ sm.numericStats.kind # "obj"
     \/ \E i \in 1..Len(sm.numericStats.entries) :
          sm.numericStats.entries[i].kind = "null"

NumStats(sm) ==
  IF ~Truthy(sm) THEN <<>>
  ELSE [i \in 1..Len(sm.numericStats.entries) |->
          [label |-> sm.numericStats.entries[i].key,
           mean |-> ToFixed2(sm.numericStats.entries[i].mean),
           sd |-> ToFixed2(sm.numericStats.entries[i].sd)]]

\* theme === "light" ? "Dark Mode" : "Light Mode"
Button(th) == IF th = "light" THEN "Dark Mode" ELSE "Light Mode"

Blank(v, th) ==
  [view |-> v, message |-> "", cards |-> <<>>, stats |-> <<>>, series |-> <<>>,
   button |-> th]

\* The returned element: loading ? Loading : error ? Error : the dashboard.
\* view "Crash" stands for a render that throws.
Render(th, ld, er, sm, dt) ==
  IF ld THEN Blank("Loading", Button(th))
  ELSE IF er # "" THEN [Blank("Error", Button(th)) EXCEPT !.message = er]
  ELSE IF StatsThrow(sm) THEN Blank("Crash", "")
  ELSE [view |-> "Ready", message |-> "",
        cards |-> << CardText(sm, sm.rowsLoaded), CardText(sm, sm.rowsUsed),
                     CardText(sm, sm.trainedSamples),
                     CardText(sm, sm.featureVectorLength) >>,
        stats |-> NumStats(sm), series |-> dt, button |-> Button(th)]

EveryRender(isMount) == TRUE
\* The dependency array [] of the fetch effect: it runs after the mount only.
FetchEffectRuns(isMount) == isMount

CatchLeavesLoading(ld) == ld
\* setLoading(false) of the catch handler.
CatchSetsLoading(ld) == FALSE

Then2LeavesLoading(ld) == ld
\* setLoading(false) of the success handler.
Then2SetsLoading(ld) == FALSE

--------------------------------------------------------------------------
(* State *)

VARIABLES
  theme,          \* useState: the in-memory theme
  data,           \* useState([]): the chart series
  summary,        \* useState(null)
  loading,        \* useState(true)
  error,          \* useState("")
  store,          \* localStorage item "theme"
  darkMode,       \* document.body carries the class dark-mode
  pc,             \* position of the fetch promise chain
  res,            \* what fetch settled with
  err,            \* the error travelling down the chain to .catch
  logged,         \* what console.error received
  mounted,        \* the component tree is mounted
  escaped,        \* where an error left the component: "none", "effect", "render"
  screen,         \* the last committed render
  batching,       \* updates of a promise callback are batched
  faulty,         \* localStorage access can throw
  readThrew,      \* localStorage.getItem threw in the initialiser of theme
  writeThrew,     \* a localStorage.setItem call has thrown
  fetchCount,     \* number of calls of fetch
  effectPending,  \* the theme effect is due (theme changed in the last commit)
  toggles,        \* number of clicks so far
  themeLog        \* the in-memory theme at startup and after each click

hooks == << data, summary, loading, error >>
view == << screen, mounted, escaped >>
chain == << pc, res, err, logged, fetchCount >>
themed == << theme, store, darkMode, effectPending, toggles, themeLog, writeThrew >>
env == << batching, faulty, readThrew >>
vars == << hooks, view, chain, themed, env >>

\* The state after the useState initialisers and the first render.
InitWith(faults) ==
  \E stored \in StoredVals, readThrows \in faults, b \in BOOLEAN, f \in faults :
    /\ store = stored
    /\ theme = InitialTheme(stored, readThrows)
    /\ themeLog = << InitialTheme(stored, readThrows) >>
    /\ batching = b
    /\ faulty = f
    /\ readThrew = readThrows
    /\ data = <<>>
    /\ summary = SummNull
    /\ loading = TRUE
    /\ error = ""
    /\ darkMode = FALSE
    /\ pc = "init"
    /\ res = NoResponse
    /\ err = "none"
    /\ logged = "none"
    /\ mounted = TRUE
    /\ escaped = "none"
    /\ screen = Render(InitialTheme(stored, readThrows), TRUE, "", SummNull, <<>>)
    /\ writeThrew = FALSE
    /\ fetchCount = 0
    /\ effectPending = FALSE
    /\ toggles = 0

\* localStorage works.
Init == InitWith({FALSE})

\* localStorage access may throw.
FaultInit == InitWith(BOOLEAN)

\* A re-render with the new state and its commit.  A render that throws is not
\* caught by any error boundary: React unmounts the tree.
Commit(th, ld, er, sm, dt) ==
  /\ screen' = Render(th, ld, er, sm, dt)
  /\ mounted' = (Render(th, ld, er, sm, dt).view # "Crash")
  /\ escaped' = IF Render(th, ld, er, sm, dt).view = "Crash" THEN "render" ELSE escaped

\* setState calls of a promise callback; on an unmounted component they do nothing.
Apply(sm, dt, ld, er) ==
  IF mounted
  THEN /\ summary' = sm /\ data' = dt /\ loading' = ld /\ error' = er
       /\ Commit(theme, ld, er, sm, dt)
  ELSE UNCHANGED << hooks, view >>

\* The theme effect: classList.toggle, then localStorage.setItem (not in a try).
ThemeEffectBody(throws) ==
  /\ darkMode' = (theme = "dark")
  /\ store' = IF throws THEN store ELSE theme
  /\ writeThrew' = (writeThrew \/ throws)
  /\ mounted' = ~throws
  /\ escaped' = IF throws THEN "effect" ELSE escaped
  /\ screen' = IF throws THEN Blank("Crash", "") ELSE screen

WriteOutcomes == IF faulty THEN BOOLEAN ELSE {FALSE}

\* The effects of the mount: the fetch effect calls fetch, then the theme effect.
Mount ==
  /\ pc = "init" /\ mounted
  /\ pc' = IF FetchEffectRuns(TRUE) THEN "pending" ELSE pc
  /\ fetchCount' = IF FetchEffectRuns(TRUE) THEN fetchCount + 1 ELSE fetchCount
  /\ \E throws \in WriteOutcomes : ThemeEffectBody(throws)
  /\ UNCHANGED << hooks, res, err, logged, theme, effectPending, toggles, themeLog, env >>

\* The network rejects the fetch.
FetchReject ==
  /\ pc = "pending"
  /\ res' = Rejected
  /\ err' = "TypeError: Failed to fetch"
  /\ pc' = "catch"
  /\ UNCHANGED << hooks, view, logged, fetchCount, themed, env >>

\* The network answers.
FetchRespond ==
  /\ pc = "pending"
  /\ \E r \in Responses : res' = r
  /\ pc' = "then1"
  /\ UNCHANGED << hooks, view, err, logged, fetchCount, themed, env >>

\* .then((res) => { if (!res.ok) throw ...; return res.json(); })
Then1 ==
  /\ pc = "then1"
  /\ pc' = IF Then1Throws(res) THEN "catch" ELSE "json"
  /\ err' = IF Then1Throws(res) THEN HTTP_MESSAGE ELSE err
  /\ UNCHANGED << hooks, view, res, logged, fetchCount, themed, env >>

\* res.json() settles: fulfilled with the parsed body, or rejected.
JsonSettle ==
  /\ pc = "json"
  /\ pc' = IF res.parses THEN "then2" ELSE "catch"
  /\ err' = IF res.parses THEN err ELSE "SyntaxError"
  /\ UNCHANGED << hooks, view, res, logged, fetchCount, themed, env >>

\* The success handler, its updates batched.  An update enqueued before a throw
\* is still applied.
Then2 ==
  /\ pc = "then2" /\ batching
  /\ LET j == res.body
         threw == DerefThrows(j) \/ (HasAbt(j) /\ MapThrows(j.abt))
     IN /\ Apply(IF DerefThrows(j) THEN summary ELSE j.summary,
                 IF ~threw /\ HasAbt(j) THEN ChartData(j.abt.items) ELSE data,
                 IF threw THEN loading ELSE Then2SetsLoading(loading),
                 error)
        /\ pc' = IF threw THEN "catch" ELSE "done"
        /\ err' = IF threw THEN "TypeError" ELSE err
  /\ UNCHANGED << res, logged, fetchCount, themed, env >>

\* The success handler without batching, one synchronous re-render per setState:
\* setSummary(json.summary)
Then2Summary ==
  /\ pc = "then2" /\ ~batching
  /\ IF DerefThrows(res.body)
     THEN /\ pc' = "catch" /\ err' = "TypeError"
          /\ UNCHANGED << hooks, view >>
     ELSE /\ Apply(res.body.summary, data, loading, error)
          /\ pc' = "then2data" /\ UNCHANGED err
  /\ UNCHANGED << res, logged, fetchCount, themed, env >>

\* if (json.accident_by_time) { ...map...; setData(chartData); }
Then2Data ==
  /\ pc = "then2data"
  /\ IF ~HasAbt(res.body)
     THEN /\ pc' = "then2loading" /\ UNCHANGED << hooks, view, err >>
     ELSE IF MapThrows(res.body.abt)
     THEN /\ pc' = "catch" /\ err' = "TypeError"
          /\ UNCHANGED << hooks, view >>
     ELSE /\ Apply(summary, ChartData(res.body.abt.items), loading, error)
          /\ pc' = "then2loading" /\ UNCHANGED err
  /\ UNCHANGED << res, logged, fetchCount, themed, env >>

\* setLoading(false)
Then2Loading ==
  /\ pc = "then2loading"
  /\ Apply(summary, data, Then2SetsLoading(loading), error)
  /\ pc' = "done"
  /\ UNCHANGED << res, err, logged, fetchCount, themed, env >>

\* The catch handler, its updates batched.
Catch ==
  /\ pc = "catch" /\ batching
  /\ logged' = err
  /\ Apply(summary, data, CatchSetsLoading(loading), CatchMessage(err))
  /\ pc' = "done"
  /\ UNCHANGED << res, err, fetchCount, themed, env >>

\* The catch handler without batching: console.error, setError(...)
CatchError ==
  /\ pc = "catch" /\ ~batching
  /\ logged' = err
  /\ Apply(summary, data, loading, CatchMessage(err))
  /\ pc' = "catch2"
  /\ UNCHANGED << res, err, fetchCount, themed, env >>

\* setLoading(false)
CatchLoading ==
  /\ pc = "catch2"
  /\ Apply(summary, data, CatchSetsLoading(loading), error)
  /\ pc' = "done"
  /\ UNCHANGED << res, err, logged, fetchCount, themed, env >>

\* A promise callback runs to completion: no click is handled inside it.
InHandler == pc \in {"then2data", "then2loading", "catch2"}

\* A click on the button: setTheme(flip) and the re-render.
ToggleTheme ==
  /\ mounted /\ pc # "init" /\ ~InHandler /\ ~effectPending
  /\ toggles < MaxToggles
  /\ theme' = Flip(theme)
  /\ themeLog' = Append(themeLog, Flip(theme))
  /\ toggles' = toggles + 1
  /\ effectPending' = (Flip(theme) # theme)
  /\ Commit(Flip(theme), loading, error, summary, data)
  /\ UNCHANGED << hooks, chain, store, darkMode, writeThrew, env >>

\* The effects after a commit that changed theme: the fetch effect is skipped
\* (its dependencies are []), the theme effect runs.
ThemeEffect ==
  /\ mounted /\ effectPending
  /\ effectPending' = FALSE
  /\ \E throws \in WriteOutcomes : ThemeEffectBody(throws)
  /\ pc' = IF FetchEffectRuns(FALSE) THEN "pending" ELSE pc
  /\ fetchCount' = IF FetchEffectRuns(FALSE) THEN fetchCount + 1 ELSE fetchCount
  /\ UNCHANGED << hooks, res, err, logged, theme, toggles, themeLog, env >>

Next ==
  \/ Mount
  \/ FetchReject
  \/ FetchRespond
  \/ Then1
  \/ JsonSettle
  \/ Then2
  \/ Then2Summary
  \/ Then2Data
  \/ Then2Loading
  \/ Catch
  \/ CatchError
  \/ CatchLoading
  \/ ToggleTheme
  \/ ThemeEffect

Spec == Init /\ [][Next]_vars

\* The same program with a persistent store whose calls may throw.
FaultSpec == FaultInit /\ [][Next]_vars

\* Promise callbacks are microtasks and effects are flushed after each commit:
\* once due they run.  Nothing forces the network to settle or the user to click.
Handlers ==
  \/ Mount
  \/ Then1
  \/ Then2
  \/ Then2Summary
  \/ Then2Data
  \/ Then2Loading
  \/ Catch
  \/ CatchError
  \/ CatchLoading
  \/ ThemeEffect

FairSpec == Init /\ [][Next]_vars /\ WF_vars(Handlers)

--------------------------------------------------------------------------
(* The load state as the render reads it *)

LoadingState == loading
ErrorState == ~loading /\ error # ""
ReadyState == ~loading /\ error = ""

Done == pc = "done"
OkParsed == res.settled = "response" /\ res.ok /\ res.parses
FetchFailed ==
  \/ res.settled = "rejected"
  \/ res.settled = "response" /\ ~res.ok
  \/ res.settled = "response" /\ res.ok /\ ~res.parses

--------------------------------------------------------------------------
(* Properties *)

\* The series is the array with its fields renamed, in order.
Mirrors(items) ==
  /\ Len(data) = Len(items)
  /\ \A i \in 1..Len(data) :
       /\ data[i].time = items[i].Var1
       /\ data[i].accidents = items[i].Freq

\* C1 as stated: after an OK response whose body holds summary and an array
\* accident_by_time, whatever the elements of the array, the loader is Ready
\* and the series mirrors the array.
C1_AnyArray ==
  ( /\ Done /\ OkParsed
    /\ res.body.kind = "obj"
    /\ res.body.summary.kind # "undefined"
    /\ res.body.abt.kind = "arr" )
  => (ReadyState /\ Mirrors(res.body.abt.items))

\* C1, amended: after an OK response whose body holds summary and an array
\* accident_by_time with no null element, the loader is Ready and the series
\* has the length of the array, element i being {time: Var1, accidents: Freq}
\* of element i of the array, in the same order.
C1_SeriesMirrorsInput ==
  ( /\ Done /\ OkParsed
    /\ res.body.kind = "obj"
    /\ res.body.summary.kind # "undefined"
    /\ res.body.abt.kind = "arr"
    /\ \A i \in 1..Len(res.body.abt.items) : res.body.abt.items[i].kind # "null" )
  => (ReadyState /\ Mirrors(res.body.abt.items))

C1_Witness ==
  /\ Done /\ OkParsed /\ res.body = ExampleBody
  /\ ReadyState
  /\ data = << [time |-> "Morning", accidents |-> "10"],
               [time |-> "Evening", accidents |-> "25"] >>
  /\ screen.view = "Ready"

\* C2: a rejected fetch, a non-2xx response (whatever its body) and an OK
\* response whose body does not parse all end in Error with the one fixed
\* message, whatever error travelled down the chain.
C2_FailuresGiveFixedError ==
  (Done /\ FetchFailed)
  => /\ ErrorState
     /\ error = FIXED_MESSAGE
     /\ logged \in {"TypeError: Failed to fetch", HTTP_MESSAGE, "SyntaxError"}

C2_Witness ==
  /\ Done /\ res.settled = "response" /\ ~res.ok /\ res.body = ExampleBody
  /\ logged = HTTP_MESSAGE
  /\ ErrorState /\ error = FIXED_MESSAGE /\ screen.message = FIXED_MESSAGE

\* C3 as stated: after an OK response whose parsed body has no key
\* accident_by_time the loader is Ready and the series is empty.
C3_AnyPayloadWithoutSeries ==
  (Done /\ OkParsed /\ res.body.abt.kind = "undefined")
  => (ReadyState /\ data = <<>>)

\* C3, amended: after an OK response whose parsed body is not null and has
\* no key accident_by_time (with or without summary) the loader is Ready and
\* the series is empty.
C3_MissingSeriesIsReady ==
  (Done /\ OkParsed /\ res.body.kind # "null" /\ res.body.abt.kind = "undefined")
  => (ReadyState /\ data = <<>>)

C3_Witness ==
  /\ Done /\ OkParsed /\ res.body.kind = "obj" /\ res.body.abt.kind = "undefined"
  /\ res.body.summary.kind = "undefined"
  /\ ReadyState /\ data = <<>> /\ screen.view = "Ready"

\* A parsed body on which the success handler raises a TypeError.
ShapeError(b) ==
  \/ b.kind = "null"
  \/ b.abt.kind \in {"num", "obj"}
  \/ b.abt.kind = "arr" /\ \E i \in 1..Len(b.abt.items) : b.abt.items[i].kind = "null"

\* C4 as stated: every OK response whose body parses ends in Ready.
C4_OnlyTransportOrParse == (Done /\ OkParsed) => ReadyState

\* C4, amended: the loader ends in Error exactly when the fetch is rejected,
\* the status is not 2xx, the body does not parse, or the success handler
\* raises a TypeError on the parsed value (null at the top level, a truthy
\* accident_by_time that is no array, an array with a null element); every
\* other OK, parseable response ends in Ready.
C4_ErrorCauses ==
  Done => /\ ErrorState <=> (FetchFailed \/ (OkParsed /\ ShapeError(res.body)))
          /\ ReadyState <=> (OkParsed /\ ~ShapeError(res.body))

C4_Witness ==
  /\ Done /\ OkParsed
  /\ res.body.kind = "obj" /\ res.body.abt.kind = "arr" /\ Len(res.body.abt.items) = 1
  /\ res.body.abt.items[1].kind = "null"
  /\ ErrorState /\ logged = "TypeError"

\* C5 as stated: from any startup theme two clicks restore the in-memory theme,
\* and once the effect of a click has run the stored theme is the in-memory one.
C5_ToggleTwiceRestores ==
  /\ \A i \in 1..Len(themeLog) : i + 2 <= Len(themeLog) => themeLog[i + 2] = themeLog[i]
  /\ (mounted /\ toggles >= 1 /\ ~effectPending) => store = theme

\* C6 as stated: a getItem that throws gives the light theme; a setItem that
\* throws lets no error leave the component, keeps the in-memory theme, and
\* leaves the component (and with it the load state) in place.
C6_StoreFailuresSwallowed ==
  /\ readThrew => themeLog[1] = "light"
  /\ writeThrew => (escaped = "none" /\ mounted /\ theme = themeLog[Len(themeLog)])

\* C7 as stated: no reachable state has loading = true with a non-empty error.
C7_NeverLoadingWithError == ~(loading /\ error # "")

\* C7, amended: the committed view is one of Loading, Error, Ready chosen by
\* the flags in that order; loading = true with a non-empty error occurs only
\* between setError and setLoading(false) of the catch handler when updates
\* are not batched (the view is then Loading), never once the handler is over.
C7_OnlyInsideCatch ==
  /\ mounted => /\ screen.view \in {"Loading", "Error", "Ready"}
                /\ screen.view = "Loading" <=> LoadingState
                /\ screen.view = "Error" <=> ErrorState
                /\ screen.view = "Ready" <=> ReadyState
  /\ (loading /\ error # "") => (pc = "catch2" /\ ~batching)

C7_Witness ==
  /\ pc = "catch2" /\ loading /\ error = FIXED_MESSAGE /\ screen.view = "Loading"

\* C8: fetch is called once per mount; loading never returns to true; a
\* resolved load state (Ready or Error) stays what it is and the promise
\* chain, once over, stays over, whatever clicks and re-renders follow.
C8_LoadOnceTerminal ==
  [][ /\ fetchCount' <= 1
      /\ (pc' # "init") => (fetchCount' = 1)
      /\ ~loading => ~loading'
      /\ ErrorState => ErrorState'
      /\ ReadyState => ReadyState'
      /\ Done => Done' ]_vars

C8_Witness ==
  /\ Done /\ ErrorState /\ fetchCount = 1
  /\ toggles >= 2 /\ ~effectPending /\ store = theme

\* A summary that is missing or lacks one of the five parts.
LacksSome(sm) ==
  \/ sm.kind = "undefined"
  \/ /\ sm.kind = "obj"
     /\ \/ UNDEF \in {sm.rowsLoaded, sm.rowsUsed, sm.trainedSamples, sm.featureVectorLength}
        \/ sm.numericStats.kind = "undefined"

\* C9 as stated: in the Ready state a summary that is missing or lacks parts
\* renders without throwing and shows "-" for each absent card value.
C9_PlaceholdersNeverFail ==
  (Done /\ OkParsed /\ ReadyState /\ LacksSome(res.body.summary))
  => /\ escaped = "none"
     /\ screen.view = "Ready"
     /\ (res.body.summary.rowsLoaded = UNDEF) => (screen.cards[1] = "-")
     /\ (res.body.summary.rowsUsed = UNDEF) => (screen.cards[2] = "-")
     /\ (res.body.summary.trainedSamples = UNDEF) => (screen.cards[3] = "-")
     /\ (res.body.summary.featureVectorLength = UNDEF) => (screen.cards[4] = "-")

\* The fetch has settled and, where the body is read, res.json() has settled.
RetrievalComplete ==
  \/ pc \in {"then2", "then2data", "then2loading", "catch", "catch2", "done"}
  \/ pc = "then1" /\ ~res.ok

\* C10: once the retrieval has completed, whatever it completed with, loading
\* becomes false.
C10_LeavesLoading == RetrievalComplete ~> ~loading

C10_Witness ==
  /\ Done /\ ~loading /\ logged = "SyntaxError" /\ res.ok /\ ~res.parses

====
